---- MODULE Spec2Model ----
(***************************************************************************)
(* Model of the binnf frame writer and reader of PyNNLess                  *)
(* (pynnless/pynnless_binnf.py).                                           *)
(*                                                                         *)
(* A byte is a number in 0..255 and a stream is a sequence of bytes.       *)
(* Integers on the wire are the 4 bytes struct.pack("i", ..) produces on   *)
(* a little-endian host (the byte order _synchronise itself assumes when   *)
(* it assembles the marker from single bytes).                             *)
(***************************************************************************)
EXTENDS Integers, Sequences, FiniteSets, TLC

VARIABLES
    block,      \* the arguments of the last serialise call
    sink,       \* every byte written to the sink so far
    wres,       \* how the last serialise call ended
    src,        \* the byte source handed to deseralise
    seekable,   \* whether src.tell() works
    scen,       \* how src was derived from sink
    rd,         \* the local state of the running / finished deseralise call
    written,    \* the serialise calls so far: arguments, result, sink span
    calls,      \* the deseralise calls that ended: outcome, source span
    runner      \* the local state of run.py

vars == <<block, sink, wres, src, seekable, scen, rd, written, calls, runner>>

----------------------------------------------------------------------------
(* Constants of the format *)

BLOCK_START_SEQUENCE == 1264806978
BLOCK_END_SEQUENCE == 1114399563
BLOCK_TYPE_MATRIX == 1
TYPE_INT == 0
TYPE_FLOAT == 1
MAX_STR_SIZE == 1024
BLOCK_TYPE_LEN == 4
SIZE_LEN == 4
TYPE_LEN == 4
NUMBER_LEN == 4

\* TYPE_MAP: the type tags header_to_dtype can resolve
TYPE_MAP == {TYPE_INT, TYPE_FLOAT}

----------------------------------------------------------------------------
(* Bounds of the model *)

MaxCols == 2
MaxRows == 2
MaxJunk == 1

----------------------------------------------------------------------------
(* struct.pack("i", i) / struct.unpack("i", d), little-endian, 32 bit *)

Pack(i) ==
    << i % 256, (i \div 256) % 256, (i \div 65536) % 256,
       (i \div 16777216) % 256 >>

Unpack(d) ==
    d[1] + 256 * d[2] + 65536 * d[3]
      + 16777216 * (IF d[4] >= 128 THEN d[4] - 256 ELSE d[4])

Min(a, b) == IF a < b THEN a ELSE b

RECURSIVE Concat(_)
\* the concatenation of a sequence of byte strings
Concat(ss) == IF ss = <<>> THEN <<>> ELSE Head(ss) \o Concat(Tail(ss))

----------------------------------------------------------------------------
(* Length helpers of the writer *)

_str_len(s) == SIZE_LEN + Len(s)

RECURSIVE _header_len(_)
_header_len(header) ==
    IF header = <<>> THEN SIZE_LEN
    ELSE _header_len(SubSeq(header, 1, Len(header) - 1))
           + _str_len(header[Len(header)].name) + TYPE_LEN

\* A matrix is [structured, rows, ncols, cells]: a one-dimensional record
\* array (shape (rows,), ncols fields of 4 bytes) or a two-dimensional array
\* (shape (rows, ncols), 4-byte items); cells[r][c] are the 4 bytes of a cell.
MatrixSize(matrix) ==
    IF matrix.structured THEN matrix.rows ELSE matrix.rows * matrix.ncols

MatrixItemSize(matrix) ==
    IF matrix.structured THEN NUMBER_LEN * matrix.ncols ELSE NUMBER_LEN

\* len(matrix.dtype.descr) of a record array, matrix.shape[1] otherwise
MatrixCols(matrix) == matrix.ncols

\* variant: the row and column count fields are left out of the length
_matrix_len_NoDims(matrix) == MatrixSize(matrix) * MatrixItemSize(matrix)

_matrix_len(matrix) == 2 * SIZE_LEN + MatrixSize(matrix) * MatrixItemSize(matrix)

_block_len(name, header, matrix) ==
    BLOCK_TYPE_LEN + _str_len(name) + _header_len(header) + _matrix_len(matrix)

\* variant: the cells column by column
ToBytes_ColumnMajor(matrix) ==
    Concat([c \in 1..matrix.ncols |->
              Concat([r \in 1..matrix.rows |-> matrix.cells[r][c]])])

\* matrix.tobytes(): the cells in C (row-major) order
ToBytes(matrix) ==
    Concat([r \in 1..matrix.rows |-> Concat(matrix.cells[r])])

----------------------------------------------------------------------------
(* The writer.  A write state is [out, err]: the bytes written by the call *)
(* so far and the exception that ended it ("none" while it runs).          *)

_write_int(w, i) ==
    IF w.err # "none" THEN w ELSE [w EXCEPT !.out = @ \o Pack(i)]

\* variant: the length is written before it is compared with the limit
_write_str_LengthFirst(w, s) ==
    IF w.err # "none" THEN w
    ELSE IF Len(s) > MAX_STR_SIZE
    THEN [w EXCEPT !.out = @ \o Pack(Len(s)), !.err = "TypeError"]
    ELSE [w EXCEPT !.out = @ \o Pack(Len(s)) \o s]

\* The raise statement concatenates a str and the int MAX_STR_SIZE, so what
\* propagates is the TypeError of that expression.
_write_str(w, s) ==
    IF w.err # "none" THEN w
    ELSE IF Len(s) > MAX_STR_SIZE THEN [w EXCEPT !.err = "TypeError"]
    ELSE [w EXCEPT !.out = @ \o Pack(Len(s)) \o s]

RECURSIVE WriteColumns(_, _, _)
\* the loop over the header of serialise, from index i on
WriteColumns(w, header, i) ==
    IF i > Len(header) THEN w
    ELSE WriteColumns(
           _write_int(_write_str(w, header[i].name), header[i].type),
           header, i + 1)

serialise(name, header, matrix) ==
    LET w1 == _write_int([out |-> <<>>, err |-> "none"], BLOCK_START_SEQUENCE)
        w2 == _write_int(w1, _block_len(name, header, matrix))
        w3 == _write_int(w2, BLOCK_TYPE_MATRIX)
        w4 == _write_str(w3, name)
        w5 == _write_int(w4, Len(header))
        w6 == WriteColumns(w5, header, 1)
        rows == matrix.rows
        cols == MatrixCols(matrix)
        w7 == IF w6.err = "none" /\ cols # Len(header)
              THEN [w6 EXCEPT !.err = "ColumnCountMismatch"] ELSE w6
        w8 == _write_int(w7, rows)
        w9 == _write_int(w8, cols)
        w10 == IF w9.err # "none" THEN w9
               ELSE [w9 EXCEPT !.out = @ \o ToBytes(matrix)]
    IN  _write_int(w10, BLOCK_END_SEQUENCE)

----------------------------------------------------------------------------
(* Reading primitives.  A source is a byte sequence s and the number pos   *)
(* of bytes already consumed.                                              *)

\* fd.read(n): up to n bytes, fewer at the end of the source; everything
\* that is left when n is negative
Read(s, pos, n) ==
    IF n < 0 THEN SubSeq(s, pos + 1, Len(s))
    ELSE SubSeq(s, pos + 1, Min(pos + n, Len(s)))

\* _read_int: [err, val, pos].  A short, non-empty read makes struct.unpack
\* raise struct.error.
_read_int(s, pos) ==
    LET data == Read(s, pos, 4)
    IN  IF data = <<>> THEN
            [err |-> "UnexpectedEndOfStream", val |-> 0, pos |-> pos]
        ELSE IF Len(data) # 4 THEN
            [err |-> "StructError", val |-> 0, pos |-> pos + Len(data)]
        ELSE [err |-> "none", val |-> Unpack(data), pos |-> pos + 4]

\* _read_str: [err, val, pos].  An empty result of fd.read is taken for the
\* end of the source, whatever length was asked for.
_read_str(s, pos) ==
    LET n == _read_int(s, pos)
        data == Read(s, n.pos, n.val)
    IN  IF n.err # "none" THEN [err |-> n.err, val |-> <<>>, pos |-> n.pos]
        ELSE IF data = <<>> THEN
            [err |-> "UnexpectedEndOfStream", val |-> <<>>, pos |-> n.pos]
        ELSE [err |-> "none", val |-> data, pos |-> n.pos + Len(data)]

\* _tell: the position, or -1 when the source cannot report it
_tell(seek, pos) == IF seek THEN pos ELSE -1

\* variant: the window is shifted towards the top and the new byte is put
\* at the bottom
SyncShift_Left(sync, c) == <<c, sync[1], sync[2], sync[3]>>

\* The 32-bit window of _synchronise, kept as its four base-256 digits,
\* least significant first: (sync >> 8) | (c << 24) drops the lowest digit
\* and puts c on top.
SyncShift(sync, c) == <<sync[2], sync[3], sync[4], c>>

\* the digits of a marker value, to compare the window with
Digits(m) == Pack(m)

\* header_to_dtype: the lookup TYPE_MAP[x["type"]] of every column raises
\* KeyError for a tag that is not a key
header_to_dtype(header) ==
    IF \E i \in 1..Len(header) : header[i].type \notin TYPE_MAP
    THEN [err |-> "UnknownColumnType", fmt |-> <<>>]
    ELSE [err |-> "none",
          fmt |-> [i \in 1..Len(header) |-> <<header[i].name, header[i].type>>]]

\* np.frombuffer(buffer(data), dtype=fmt): numpy rejects a record type with
\* a repeated field name or without fields (item size 0), and a buffer whose
\* size is no multiple of the item size; otherwise the result has as many
\* records as the buffer holds.
FromBuffer(data, fmt) ==
    LET itemsize == NUMBER_LEN * Len(fmt)
    IN  IF \/ Len(fmt) = 0
           \/ \E i, j \in 1..Len(fmt) : i # j /\ fmt[i][1] = fmt[j][1]
           \/ Len(data) % itemsize # 0
        THEN [err |-> "NumpyError", matrix |-> <<>>]
        ELSE [err |-> "none",
              matrix |->
                [r \in 1..(Len(data) \div itemsize) |->
                  [c \in 1..Len(fmt) |->
                    SubSeq(data, (r - 1) * itemsize + (c - 1) * NUMBER_LEN + 1,
                           (r - 1) * itemsize + c * NUMBER_LEN)]]]

----------------------------------------------------------------------------
(* deseralise, one step per statement group.  r is the record of its local *)
(* variables, r.pc the statement it is at, r.pos the position of the       *)
(* source, r.err the exception that ended it.                              *)

RdIdle ==
    [pc |-> "idle", pos |-> 0, sync |-> <<0, 0, 0, 0>>, block_len |-> 0,
     pos0 |-> 0, name |-> <<>>, header |-> <<>>, i |-> 0, rows |-> 0,
     cols |-> 0, matrix |-> <<>>, err |-> "none", at |-> "idle"]

\* the state on entry of a call that finds the source at position pos
RdStart(pos) == [RdIdle EXCEPT !.pc = "sync", !.pos = pos]

\* variant: a failed check ends the call with a return of what has been
\* decoded so far
Raise_Partial(r, kind, pos) ==
    [r EXCEPT !.pc = "done", !.pos = pos, !.at = r.pc]

\* an exception leaves the call; r.at keeps the statement that raised it
Raise(r, kind, pos) ==
    [r EXCEPT !.pc = "failed", !.err = kind, !.pos = pos, !.at = r.pc]

\* variant: the source is compared with the marker one 4-byte word at a
\* time instead of through a window that moves byte by byte
StepSync_WordWise(s, r) ==
    LET c == Read(s, r.pos, 4)
    IN  IF Len(c) < 4 THEN Raise(r, "UnexpectedEndOfStream", r.pos + Len(c))
        ELSE [r EXCEPT !.pos = @ + 4, !.sync = c,
                       !.pc = IF c = Digits(BLOCK_START_SEQUENCE)
                              THEN "block_len" ELSE "sync"]

\* variant: an empty read is not taken for the end of the source and the
\* loop goes on reading
StepSync_Spin(s, r) ==
    LET c == Read(s, r.pos, 1)
        w == SyncShift(r.sync, c[1])
    IN  IF c = <<>> THEN r
        ELSE [r EXCEPT !.pos = @ + 1, !.sync = w,
                       !.pc = IF w = Digits(BLOCK_START_SEQUENCE)
                              THEN "block_len" ELSE "sync"]

\* one iteration of the loop of _synchronise
StepSync(s, r) ==
    LET c == Read(s, r.pos, 1)
        w == SyncShift(r.sync, c[1])
    IN  IF c = <<>> THEN Raise(r, "UnexpectedEndOfStream", r.pos)
        ELSE [r EXCEPT !.pos = @ + 1, !.sync = w,
                       !.pc = IF w = Digits(BLOCK_START_SEQUENCE)
                              THEN "block_len" ELSE "sync"]

StepBlockLen(s, seek, r) ==
    LET x == _read_int(s, r.pos)
    IN  IF x.err # "none" THEN Raise(r, x.err, x.pos)
        ELSE [r EXCEPT !.block_len = x.val, !.pos = x.pos,
                       !.pos0 = _tell(seek, x.pos), !.pc = "block_type"]

StepBlockType(s, r) ==
    LET x == _read_int(s, r.pos)
    IN  IF x.err # "none" THEN Raise(r, x.err, x.pos)
        ELSE IF x.val # BLOCK_TYPE_MATRIX
        THEN Raise(r, "UnsupportedBlockType", x.pos)
        ELSE [r EXCEPT !.pos = x.pos, !.pc = "name"]

StepName(s, r) ==
    LET x == _read_str(s, r.pos)
    IN  IF x.err # "none" THEN Raise(r, x.err, x.pos)
        ELSE [r EXCEPT !.name = x.val, !.pos = x.pos, !.pc = "header_len"]

StepHeaderLen(s, r) ==
    LET x == _read_int(s, r.pos)
    IN  IF x.err # "none" THEN Raise(r, x.err, x.pos)
        ELSE [r EXCEPT !.pos = x.pos, !.i = 1,
                       !.header = [k \in 1..x.val |->
                                     [name |-> <<>>, type |-> TYPE_INT]],
                       !.pc = IF x.val >= 1 THEN "column" ELSE "rows_cols"]

\* one iteration of the loop over the columns
StepColumn(s, r) ==
    LET n == _read_str(s, r.pos)
        t == _read_int(s, n.pos)
    IN  IF n.err # "none" THEN Raise(r, n.err, n.pos)
        ELSE IF t.err # "none"
        THEN Raise([r EXCEPT !.header[r.i].name = n.val], t.err, t.pos)
        ELSE [r EXCEPT !.header[r.i] = [name |-> n.val, type |-> t.val],
                       !.pos = t.pos, !.i = @ + 1,
                       !.pc = IF r.i < Len(r.header)
                              THEN "column" ELSE "rows_cols"]

StepRowsCols(s, r) ==
    LET x == _read_int(s, r.pos)
        y == _read_int(s, x.pos)
    IN  IF x.err # "none" THEN Raise(r, x.err, x.pos)
        ELSE IF y.err # "none"
        THEN Raise([r EXCEPT !.rows = x.val], y.err, y.pos)
        ELSE IF y.val # Len(r.header)
        THEN Raise([r EXCEPT !.rows = x.val, !.cols = y.val],
                   "ColumnCountMismatch", y.pos)
        ELSE [r EXCEPT !.rows = x.val, !.cols = y.val, !.pos = y.pos,
                       !.pc = "matrix"]

StepMatrix(s, r) ==
    LET f == header_to_dtype(r.header)
        data == Read(s, r.pos, r.rows * r.cols * NUMBER_LEN)
        m == FromBuffer(data, f.fmt)
    IN  IF f.err # "none" THEN Raise(r, f.err, r.pos)
        ELSE IF m.err # "none" THEN Raise(r, m.err, r.pos + Len(data))
        ELSE [r EXCEPT !.matrix = m.matrix, !.pos = @ + Len(data),
                       !.pc = "check_len"]

StepCheckLen(seek, r) ==
    LET pos1 == _tell(seek, r.pos)
    IN  IF r.pos0 >= 0 /\ pos1 >= 0 /\ pos1 - r.pos0 # r.block_len
        THEN Raise(r, "FrameLengthMismatch", r.pos)
        ELSE [r EXCEPT !.pc = "block_end"]

\* variant: the call returns without reading the end marker
StepBlockEnd_NoCheck(s, r) == [r EXCEPT !.pc = "done", !.at = "done"]

StepBlockEnd(s, r) ==
    LET x == _read_int(s, r.pos)
    IN  IF x.err # "none" THEN Raise(r, x.err, x.pos)
        ELSE IF x.val # BLOCK_END_SEQUENCE
        THEN Raise(r, "FrameEndMarkerMismatch", x.pos)
        ELSE [r EXCEPT !.pos = x.pos, !.pc = "done", !.at = "done"]

Step(s, seek, r) ==
    CASE r.pc = "sync"       -> StepSync(s, r)
      [] r.pc = "block_len"  -> StepBlockLen(s, seek, r)
      [] r.pc = "block_type" -> StepBlockType(s, r)
      [] r.pc = "name"       -> StepName(s, r)
      [] r.pc = "header_len" -> StepHeaderLen(s, r)
      [] r.pc = "column"     -> StepColumn(s, r)
      [] r.pc = "rows_cols"  -> StepRowsCols(s, r)
      [] r.pc = "matrix"     -> StepMatrix(s, r)
      [] r.pc = "check_len"  -> StepCheckLen(seek, r)
      [] r.pc = "block_end"  -> StepBlockEnd(s, r)
      [] OTHER               -> r

RECURSIVE Run(_, _, _)
\* the statements of deseralise from r on, to its return or its exception
Run(s, seek, r) ==
    IF r.pc \in {"idle", "done", "failed"} THEN r
    ELSE Run(s, seek, Step(s, seek, r))

\* deseralise(fd) for a source s at position pos
deseralise(s, seek, pos) == Run(s, seek, RdStart(pos))

\* what the caller gets: the returned triple, or the exception
Outcome(r) ==
    IF r.pc = "done"
    THEN [kind |-> "ok", name |-> r.name, header |-> r.header,
          matrix |-> r.matrix]
    ELSE [kind |-> r.err, name |-> <<>>, header |-> <<>>, matrix |-> <<>>]

----------------------------------------------------------------------------
(* The inputs the model draws from *)

\* block names: the empty name and "n"
Names == {<<>>, <<110>>}

\* column specs: "t" INT32, "x" FLOAT32 and a column without a name
ColSpecs ==
    { [name |-> <<116>>, type |-> TYPE_INT],
      [name |-> <<120>>, type |-> TYPE_FLOAT],
      [name |-> <<>>, type |-> TYPE_INT] }

Headers == UNION {[1..n -> ColSpecs] : n \in 1..MaxCols}

\* the 4 bytes of the cell in row r, column c: different in every position
Cell(r, c) == <<r, c, 128, 63>>

Matrix(structured, rows, ncols) ==
    [structured |-> structured, rows |-> rows, ncols |-> ncols,
     cells |-> [r \in 1..rows |-> [c \in 1..ncols |-> Cell(r, c)]]]

Matrices ==
    {Matrix(st, rows, ncols) :
        st \in BOOLEAN, rows \in 0..MaxRows, ncols \in 0..MaxCols}

\* leading bytes that are not part of a frame: a piece of the start marker
\* between two short runs of other bytes
JunkBytes == {33}
Junk == UNION {[1..n -> JunkBytes] : n \in 0..MaxJunk}
MarkerPieces ==
    {SubSeq(Digits(BLOCK_START_SEQUENCE), a, b) : a \in 1..5, b \in 0..4}
Garbage == {pre \o mid \o post : pre \in Junk, mid \in MarkerPieces, post \in Junk}

\* values written over an integer field of a frame
PatchVals == -1..3

\* byte with one bit inverted
FlipBit(byte, bit) ==
    IF (byte \div (2 ^ bit)) % 2 = 1 THEN byte - 2 ^ bit ELSE byte + 2 ^ bit

\* stream s with the 4 bytes from offset at on replaced by the integer v
Patch(s, at, v) ==
    [k \in 1..Len(s) |-> IF k > at /\ k <= at + 4 THEN Pack(v)[k - at] ELSE s[k]]

NoScen == [kind |-> "none", g |-> <<>>, at |-> 0, v |-> 0]

----------------------------------------------------------------------------
(* Offsets of the fields of the frame serialise writes for a block b whose *)
(* matrix has as many columns as the header                                *)

OffLen == 4
OffType == 8
OffName == 12
OffNCols(b) == OffName + _str_len(b.name)
OffCol(b, i) == OffNCols(b) + _header_len(SubSeq(b.header, 1, i - 1))
OffColType(b, i) == OffCol(b, i) + _str_len(b.header[i].name)
OffRows(b) == OffNCols(b) + _header_len(b.header)
OffCols2(b) == OffRows(b) + SIZE_LEN
OffData(b) == OffCols2(b) + SIZE_LEN
OffEnd(b) == OffData(b) + b.rows * b.ncols * NUMBER_LEN

\* the integer fields a corrupting writer may overwrite without moving the
\* fields that follow
PatchOffsets(b) ==
    {OffLen, OffType, OffRows(b), OffCols2(b)}
      \cup {OffColType(b, i) : i \in 1..Len(b.header)}

----------------------------------------------------------------------------
(* run.py: the examples in the directory are run one after another *)

MaxExamples == 3

\* the entries os.listdir may find: file names, numbered in their sorting
\* order, that end in ".py", and one that does not
DirEntries ==
    {[name |-> n, py |-> TRUE] : n \in 1..MaxExamples}
      \cup {[name |-> 0, py |-> FALSE]}

\* os.listdir: any subset of the entries in any order
Listings ==
    {l \in UNION {[1..n -> DirEntries] : n \in 0..(MaxExamples + 1)} :
        \A a, b \in 1..Len(l) : a # b => l[a] # l[b]}

\* what subprocess.call may return: killed by a signal, success, failure
ExitStatuses == {-9, 0, 1}

RECURSIVE PyFiles(_)
\* [f for f in os.listdir(examples) if f[-3:] == ".py"]
PyFiles(l) ==
    IF l = <<>> THEN <<>>
    ELSE IF Head(l).py THEN <<Head(l).name>> \o PyFiles(Tail(l))
    ELSE PyFiles(Tail(l))

RECURSIVE SortFiles(_)
\* files.sort(): the smallest name first, then the rest sorted
SortFiles(f) ==
    IF f = <<>> THEN <<>>
    ELSE LET k == CHOOSE k \in 1..Len(f) : \A j \in 1..Len(f) : f[k] <= f[j]
         IN  <<f[k]>> \o SortFiles(SubSeq(f, 1, k - 1) \o SubSeq(f, k + 1, Len(f)))

\* files: the sorted list, i: the loop index (from 1), ok: the flag per
\* file, ran / status: the examples executed so far and what they returned,
\* exit: the exit status of run.py
RunnerIdle ==
    [pc |-> "idle", files |-> <<>>, i |-> 0, ok |-> <<>>, ran |-> <<>>,
     status |-> <<>>, exit |-> 0]

\* lines 34 to 36: list, filter, sort, one flag per file
ListExamples(listing) ==
    /\ runner.pc = "idle"
    /\ LET files == SortFiles(PyFiles(listing))
       IN  runner' = [runner EXCEPT !.pc = "loop", !.files = files, !.i = 1,
                                    !.ok = [k \in 1..Len(files) |-> TRUE]]
    /\ UNCHANGED <<block, sink, wres, src, seekable, scen, rd, written, calls>>

\* one iteration of the loop of lines 37 to 42: the example returns st
RunExample(st) ==
    /\ runner.pc = "loop" /\ runner.i <= Len(runner.files)
    /\ runner' = [runner EXCEPT !.ran = Append(@, runner.files[runner.i]),
                                !.status = Append(@, st),
                                !.ok[runner.i] = IF st # 0 THEN FALSE ELSE @,
                                !.i = @ + 1]
    /\ UNCHANGED <<block, sink, wres, src, seekable, scen, rd, written, calls>>

\* lines 44 to 54 after the loop: reduce() raises TypeError on an empty
\* list, which ends the interpreter with status 1 like sys.exit(1)
Summary ==
    /\ runner.pc = "loop" /\ runner.i > Len(runner.files)
    /\ runner' = [runner EXCEPT
                     !.pc = "exited",
                     !.exit = IF runner.ok = <<>> THEN 1
                              ELSE IF \A k \in 1..Len(runner.ok) : runner.ok[k]
                              THEN 0 ELSE 1]
    /\ UNCHANGED <<block, sink, wres, src, seekable, scen, rd, written, calls>>

----------------------------------------------------------------------------
(* The state machine *)

Init ==
    /\ block = [name |-> <<>>, header |-> <<>>, rows |-> 0, ncols |-> 0,
                cells |-> <<>>]
    /\ sink = <<>>
    /\ wres = "idle"
    /\ src = <<>>
    /\ seekable = FALSE
    /\ scen = NoScen
    /\ rd = RdIdle
    /\ written = <<>>
    /\ calls = <<>>
    /\ runner = RunnerIdle

\* serialise(sink, name, header, matrix), the whole call, on a sink that
\* holds the bytes of the calls before it
SerialiseCall(name, header, matrix) ==
    /\ LET w == serialise(name, header, matrix)
       IN  /\ sink' = sink \o w.out
           /\ wres' = IF w.err = "none" THEN "ok" ELSE w.err
    /\ block' = [name |-> name, header |-> header, rows |-> matrix.rows,
                 ncols |-> matrix.ncols, cells |-> matrix.cells]
    /\ written' = Append(written, [block |-> block', res |-> wres',
                                   from |-> Len(sink), to |-> Len(sink')])
    /\ UNCHANGED <<src, seekable, scen, rd, calls, runner>>

\* the first serialise call on an empty sink
Serialise(name, header, matrix) ==
    /\ wres = "idle"
    /\ SerialiseCall(name, header, matrix)

\* the sink's bytes become the source as they are
OpenPlain(seek) ==
    /\ wres # "idle" /\ scen.kind = "none"
    /\ src' = sink
    /\ seekable' = seek
    /\ scen' = [NoScen EXCEPT !.kind = "plain"]
    /\ UNCHANGED <<block, sink, wres, rd, written, calls, runner>>

\* other bytes precede the frame in the source
OpenGarbage(seek, g) ==
    /\ wres = "ok" /\ scen.kind = "none"
    /\ src' = g \o sink
    /\ seekable' = seek
    /\ scen' = [NoScen EXCEPT !.kind = "garbage", !.g = g]
    /\ UNCHANGED <<block, sink, wres, rd, written, calls, runner>>

\* the source ends after the first k bytes of the frame
OpenTruncated(seek, k) ==
    /\ wres = "ok" /\ scen.kind = "none"
    /\ k < Len(sink)
    /\ src' = SubSeq(sink, 1, k)
    /\ seekable' = seek
    /\ scen' = [NoScen EXCEPT !.kind = "cut", !.at = k]
    /\ UNCHANGED <<block, sink, wres, rd, written, calls, runner>>

\* one bit of byte number at of the frame is inverted
OpenFlipped(seek, at, bit) ==
    /\ wres = "ok" /\ scen.kind = "none"
    /\ at \in 1..Len(sink)
    /\ src' = [sink EXCEPT ![at] = FlipBit(@, bit)]
    /\ seekable' = seek
    /\ scen' = [NoScen EXCEPT !.kind = "flip", !.at = at, !.v = bit]
    /\ UNCHANGED <<block, sink, wres, rd, written, calls, runner>>

\* an integer field of the frame holds another value
OpenPatched(seek, at, v) ==
    /\ wres = "ok" /\ scen.kind = "none"
    /\ at \in PatchOffsets(block)
    /\ Unpack(SubSeq(sink, at + 1, at + 4)) # v
    /\ src' = Patch(sink, at, v)
    /\ seekable' = seek
    /\ scen' = [NoScen EXCEPT !.kind = "patch", !.at = at, !.v = v]
    /\ UNCHANGED <<block, sink, wres, rd, written, calls, runner>>

\* deseralise(src), the whole call, on a source that stands where the
\* calls before it left it
DeseraliseCall ==
    /\ rd' = deseralise(src, seekable, rd.pos)
    /\ calls' = Append(calls, [out |-> Outcome(rd'), from |-> rd.pos,
                               to |-> rd'.pos])
    /\ UNCHANGED <<block, sink, wres, src, seekable, scen, written, runner>>

\* the first deseralise call on the source
Deseralise ==
    /\ scen.kind # "none" /\ rd.pc = "idle"
    /\ DeseraliseCall

Next ==
    \/ \E name \in Names, header \in Headers, matrix \in Matrices :
          Serialise(name, header, matrix)
    \/ \E seek \in BOOLEAN : OpenPlain(seek)
    \/ \E seek \in BOOLEAN, g \in Garbage : OpenGarbage(seek, g)
    \/ \E seek \in BOOLEAN, k \in 0..Len(sink) : OpenTruncated(seek, k)
    \/ \E seek \in BOOLEAN, at \in (Len(sink) - 3)..Len(sink), bit \in 0..7 :
          OpenFlipped(seek, at, bit)
    \/ \E seek \in BOOLEAN, at \in 0..Len(sink), v \in PatchVals :
          OpenPatched(seek, at, v)
    \/ Deseralise

Spec == Init /\ [][Next]_vars

----------------------------------------------------------------------------
(* The same calls on names at the size limit of _write_str *)

Rep(n) == [k \in 1..n |-> 97]

LimitNames == {<<110>>, Rep(MAX_STR_SIZE), Rep(MAX_STR_SIZE + 1)}

LimitHeaders ==
    {<<[name |-> n, type |-> TYPE_INT]>> : n \in LimitNames}

NextLimit ==
    \/ \E name \in LimitNames, header \in LimitHeaders, matrix \in Matrices :
          Serialise(name, header, matrix)
    \/ \E seek \in BOOLEAN : OpenPlain(seek)
    \/ Deseralise

SpecLimit == Init /\ [][NextLimit]_vars

----------------------------------------------------------------------------
(* Vocabulary of the properties *)

\* the call of deseralise has returned or raised
Finished == rd.pc \in {"done", "failed"}

\* a Block of the data model: names within the limit, known column types,
\* as many matrix columns as column specs
ValidBlock(b) ==
    /\ Len(b.name) <= MAX_STR_SIZE
    /\ \A i \in 1..Len(b.header) :
          /\ Len(b.header[i].name) <= MAX_STR_SIZE
          /\ b.header[i].type \in {TYPE_INT, TYPE_FLOAT}
    /\ b.ncols = Len(b.header)

\* the triple a reader owes the caller for block b
BlockOf(b) ==
    [kind |-> "ok", name |-> b.name, header |-> b.header, matrix |-> b.cells]

\* s holds the four bytes of the start marker in a row
ContainsMarker(s) ==
    \E k \in 1..(Len(s) - 3) :
        SubSeq(s, k, k + 3) = Digits(BLOCK_START_SEQUENCE)

RECURSIVE SumColumns(_)
\* the sum over the columns of 4 + len(colname) + 4
SumColumns(header) ==
    IF header = <<>> THEN 0
    ELSE 4 + Len(Head(header).name) + 4 + SumColumns(Tail(header))

\* the frame length the format asks for
FrameLen(b) ==
    4 + (4 + Len(b.name)) + (4 + SumColumns(b.header))
      + (4 + 4 + b.rows * b.ncols * 4)

RECURSIVE ColumnsLayout(_)
\* per column, in column order: name length, name bytes, type tag
ColumnsLayout(header) ==
    IF header = <<>> THEN <<>>
    ELSE Pack(Len(Head(header).name)) \o Head(header).name
           \o Pack(Head(header).type) \o ColumnsLayout(Tail(header))

\* the payload: byte k belongs to cell (k-1) \div 4 in row-major numbering
PayloadLayout(b) ==
    [k \in 1..(b.rows * b.ncols * 4) |->
        b.cells[((k - 1) \div (4 * b.ncols)) + 1]
               [(((k - 1) \div 4) % b.ncols) + 1]
               [((k - 1) % 4) + 1]]

\* the frame of the format for block b, field by field
FrameLayout(b) ==
    <<66, 108, 99, 75>> \o Pack(FrameLen(b)) \o Pack(1)
      \o Pack(Len(b.name)) \o b.name
      \o Pack(Len(b.header)) \o ColumnsLayout(b.header)
      \o Pack(b.rows) \o Pack(b.ncols) \o PayloadLayout(b)
      \o <<75, 99, 108, 66>>

TooLong(b) ==
    \/ Len(b.name) > MAX_STR_SIZE
    \/ \E i \in 1..Len(b.header) : Len(b.header[i].name) > MAX_STR_SIZE

----------------------------------------------------------------------------
(* The properties *)

\* C1: round trip. Reading the bytes serialise wrote for a valid Block
\* succeeds and returns the same name, column specs and cells.
C1_RoundTrip ==
    (scen.kind = "plain" /\ ValidBlock(block) /\ Finished)
        => Outcome(rd) = BlockOf(block)

\* C2 as stated: whatever bytes precede a valid frame, complete copies of
\* the start marker included, deseralise returns what it returns for the
\* frame alone.
C2_ResyncAnyGarbage ==
    (scen.kind = "garbage" /\ Finished)
        => Outcome(rd) = Outcome(deseralise(sink, seekable, 0))

\* C2 amended: when the bytes that precede a valid frame hold no complete
\* copy of the start marker (parts of it are allowed), deseralise ends as
\* it ends on the frame alone: the same triple, or the same error.
C2_Resync ==
    (scen.kind = "garbage" /\ Finished /\ ~ContainsMarker(scen.g))
        => Outcome(rd) = Outcome(deseralise(sink, seekable, 0))

\* a decoded frame behind garbage that ends with the first three bytes of
\* the start marker
C2_Witness ==
    /\ scen.kind = "garbage" /\ rd.pc = "done"
    /\ Len(scen.g) >= 4
    /\ SubSeq(scen.g, Len(scen.g) - 2, Len(scen.g)) = <<66, 108, 99>>
    /\ ~ContainsMarker(scen.g)
    /\ block.rows >= 1

\* C3: truncation error kind. deseralise on the first k bytes of a valid
\* frame fails with UnexpectedEndOfStream and no other error kind.
C3_TruncationKind ==
    (scen.kind = "cut" /\ Finished) => rd.err = "UnexpectedEndOfStream"

C5_EndMarkerCorruption ==
    (scen.kind = "flip" /\ ValidBlock(block) /\ Finished)
        => rd.err = "FrameEndMarkerMismatch"

\* C6: the frame-length field of a written frame is the number of bytes
\* between the end of that field and the start of the end marker, and it
\* is 4 + (4 + len(name)) + (4 + sum(4 + len(colname) + 4))
\*      + (4 + 4 + rows*cols*4).
C6_FrameLength ==
    wres = "ok" =>
        /\ Unpack(SubSeq(sink, 5, 8)) = Len(sink) - 12
        /\ Unpack(SubSeq(sink, 5, 8)) = FrameLen(block)

\* a written frame with two columns and the most rows
C6_Witness ==
    wres = "ok" /\ block.rows = MaxRows /\ block.ncols = 2 /\ Len(sink) > 12

\* C7: a written frame is exactly: start marker, frame length, tag 1, name
\* length and name, column count, per column name length, name and type
\* tag, row count, column count, the cells row by row, end marker.
C7_WireLayout ==
    wres = "ok" => sink = FrameLayout(block)

\* a written frame with two named columns of different type and two rows
C7_Witness ==
    /\ wres = "ok" /\ block.rows = 2 /\ block.ncols = 2
    /\ block.header[1].type # block.header[2].type
    /\ block.header[1].name # <<>> /\ block.name # <<>>

\* C8: serialise with a block name or a column name of more than 1024
\* bytes fails with the NameTooLong error of _write_str and completes no
\* frame; names of exactly 1024 bytes are accepted.
C8_NameTooLong ==
    wres # "idle" =>
        /\ TooLong(block) =>
              /\ wres = "NameTooLong"
              /\ SubSeq(sink, Len(sink) - 3, Len(sink))
                   # Pack(BLOCK_END_SEQUENCE)
        /\ (~TooLong(block) /\ block.ncols = Len(block.header)) => wres = "ok"

\* C9: serialise with a matrix whose column count differs from the number
\* of column specs fails with ColumnCountMismatch and completes no frame;
\* deseralise on a frame whose repeated column count differs from the
\* number of column specs fails with ColumnCountMismatch.
C9_ShapeValidation ==
    /\ (wres # "idle" /\ block.ncols # Len(block.header))
          => /\ wres = "ColumnCountMismatch"
             /\ SubSeq(sink, Len(sink) - 3, Len(sink))
                  # Pack(BLOCK_END_SEQUENCE)
    /\ (scen.kind = "patch" /\ scen.at = OffCols2(block) /\ Finished)
          => rd.err = "ColumnCountMismatch"

\* C10: a frame whose length field is wrong is rejected with
\* FrameLengthMismatch on a source that reports its position, and decodes
\* to the same Block on a source that does not.
C10_LengthCheck ==
    (scen.kind = "patch" /\ scen.at = OffLen /\ ValidBlock(block) /\ Finished)
        => IF seekable THEN rd.err = "FrameLengthMismatch"
           ELSE Outcome(rd) = BlockOf(block)

----------------------------------------------------------------------------
(* What remains of C5, C9 and C10 on the frames deseralise can decode *)

\* the untouched frame decodes to the block it was written from
RoundTrips == Outcome(deseralise(sink, seekable, 0)) = BlockOf(block)

\* on a frame that decodes, an inverted bit of the end marker is reported
\* as FrameEndMarkerMismatch
EndMarkerOnDecodable ==
    (scen.kind = "flip" /\ Finished /\ RoundTrips)
        => rd.err = "FrameEndMarkerMismatch"

\* on a frame that decodes, another repeated column count is reported as
\* ColumnCountMismatch
ShapeOnDecodable ==
    (scen.kind = "patch" /\ scen.at = OffCols2(block) /\ Finished /\ RoundTrips)
        => rd.err = "ColumnCountMismatch"

\* on a frame that decodes, another frame length is reported as
\* FrameLengthMismatch where the source has positions and ignored where
\* it has none
LengthOnDecodable ==
    (scen.kind = "patch" /\ scen.at = OffLen /\ Finished /\ RoundTrips)
        => IF seekable THEN rd.err = "FrameLengthMismatch"
           ELSE Outcome(rd) = BlockOf(block)

----------------------------------------------------------------------------
(* Unknown column types *)

\* the frame was written from a valid block and one column's type tag was
\* replaced by a value TYPE_MAP does not hold
UnknownTagPatched ==
    /\ scen.kind = "patch" /\ scen.v \notin TYPE_MAP
    /\ \E i \in 1..Len(block.header) : scen.at = OffColType(block, i)

\* C11: unknown column type. deseralise on an otherwise well-formed frame
\* in which a column's type tag is neither 0 nor 1 fails with
\* UnknownColumnType, returns no Block and has decoded no cell.
C11_UnknownColumnType ==
    (UnknownTagPatched /\ Finished)
        => /\ rd.pc = "failed" /\ rd.err = "UnknownColumnType"
           /\ rd.matrix = <<>>

\* on a frame that decodes, a type tag outside TYPE_MAP is reported as
\* UnknownColumnType before a byte of the payload is read
UnknownTypeOnDecodable ==
    (UnknownTagPatched /\ Finished /\ RoundTrips)
        => /\ rd.pc = "failed" /\ rd.err = "UnknownColumnType"
           /\ rd.matrix = <<>> /\ rd.pos = OffData(block)

\* whatever the frame, a tag outside TYPE_MAP never yields a Block or a cell
NoCellUnderUnknownType ==
    (UnknownTagPatched /\ Finished) => rd.pc = "failed" /\ rd.matrix = <<>>

----------------------------------------------------------------------------
(* Several frames in one stream, several deseralise calls on one source *)

MaxFrames == 2

NamedColSpecs == {c \in ColSpecs : c.name # <<>>}

\* blocks of one named column and at most one row, with and without a
\* block name
SeqBlocks ==
    {[name |-> n, header |-> <<c>>, matrix |-> Matrix(TRUE, rows, 1)] :
        n \in Names, c \in NamedColSpecs, rows \in 0..1}

\* a further serialise call on the sink of the calls before it
SerialiseMore(name, header, matrix) ==
    /\ wres = "ok" /\ scen.kind = "none" /\ Len(written) < MaxFrames
    /\ SerialiseCall(name, header, matrix)

\* the fields of the first frame of the sink that a corrupting writer may
\* overwrite, the end marker among them
CorruptOffsets == PatchOffsets(written[1].block) \cup {OffEnd(written[1].block)}

\* the first of several frames holds another value in one integer field
OpenCorruptFirst(seek, at, v) ==
    /\ wres = "ok" /\ scen.kind = "none" /\ Len(written) >= 2
    /\ at \in CorruptOffsets
    /\ Unpack(SubSeq(sink, at + 1, at + 4)) # v
    /\ src' = Patch(sink, at, v)
    /\ seekable' = seek
    /\ scen' = [NoScen EXCEPT !.kind = "corrupt", !.at = at, !.v = v]
    /\ UNCHANGED <<block, sink, wres, rd, written, calls, runner>>

\* the caller calls deseralise again on the same source after a call that
\* returned or raised
DeseraliseAgain ==
    /\ rd.pc \in {"done", "failed"} /\ Len(calls) <= Len(written)
    /\ DeseraliseCall

NextSeq ==
    \/ \E b \in SeqBlocks : Serialise(b.name, b.header, b.matrix)
    \/ \E b \in SeqBlocks : SerialiseMore(b.name, b.header, b.matrix)
    \/ \E seek \in BOOLEAN : OpenPlain(seek)
    \/ \E seek \in BOOLEAN, at \in 0..Len(sink), v \in PatchVals :
          OpenCorruptFirst(seek, at, v)
    \/ Deseralise
    \/ DeseraliseAgain

SpecSeq == Init /\ [][NextSeq]_vars

\* the frame of the k-th serialise call as it stands in the source
FrameOf(k) == SubSeq(src, written[k].from + 1, written[k].to)

\* the frames after the first one that begin at or after position p with
\* no start marker between p and their first byte
FramesAhead(p) ==
    {k \in 2..Len(written) :
        /\ written[k].from >= p
        /\ ~ContainsMarker(SubSeq(src, p + 1, written[k].from))}

\* C12: recovery by re-invocation. After a call that failed on a corrupt
\* frame the next call starts where the failed call stopped, and when a
\* valid frame begins at or after that position with no start marker
\* before it, the next call returns that frame's Block.
C12_Recovery ==
    (scen.kind = "corrupt" /\ Len(calls) >= 2 /\ calls[1].out.kind # "ok")
        => /\ calls[2].from = calls[1].to
           /\ \A k \in FramesAhead(calls[1].to) :
                 calls[2].out = BlockOf(written[k].block)

\* the k-th frame alone decodes to the block it was written from
DecodesAlone(k) ==
    Outcome(deseralise(FrameOf(k), seekable, 0)) = BlockOf(written[k].block)

\* where the frame ahead decodes alone, the next call returns its Block
\* and stops behind its end marker
RecoveryOnDecodable ==
    (scen.kind = "corrupt" /\ Len(calls) >= 2 /\ calls[1].out.kind # "ok")
        => /\ calls[2].from = calls[1].to
           /\ \A k \in FramesAhead(calls[1].to) :
                 DecodesAlone(k) =>
                    /\ calls[2].out = BlockOf(written[k].block)
                    /\ calls[2].to = written[k].to

\* a first call that failed in the first frame and a second call that
\* returned the second frame
RecoveryHappens ==
    /\ scen.kind = "corrupt" /\ Len(calls) >= 2 /\ calls[1].out.kind # "ok"
    /\ calls[1].to < written[2].from
    /\ calls[2].out.kind = "ok"

----------------------------------------------------------------------------
(* run.py *)

NextRun ==
    \/ \E listing \in Listings : ListExamples(listing)
    \/ \E st \in ExitStatuses : RunExample(st)
    \/ Summary

SpecRun == Init /\ [][NextRun]_vars

\* the examples executed so far are the first files of the sorted list
RanInOrder ==
    /\ runner.ran = SubSeq(runner.files, 1, Len(runner.ran))
    /\ \A a, b \in 1..Len(runner.files) :
          a < b => runner.files[a] < runner.files[b]

\* C13: run.py aborts when an example fails. The examples are executed one
\* after another in sorted file-name order, and once one example has
\* returned a non-zero exit status no later example is executed.
C13_AbortsOnFailure ==
    /\ RanInOrder
    /\ \A k \in 1..(Len(runner.status) - 1) : runner.status[k] = 0

\* what run.py does: it executes every example in sorted order whatever
\* the earlier ones returned, and exits with status 1 when one has failed
\* (or when there is no example at all)
RunsEveryExample ==
    /\ RanInOrder
    /\ runner.pc = "exited" =>
          /\ runner.ran = runner.files
          /\ runner.exit = 0 <=>
                /\ runner.files # <<>>
                /\ \A k \in 1..Len(runner.status) : runner.status[k] = 0

----------------------------------------------------------------------------
(* Frames with two violations *)

\* the integer fields whose value deseralise checks
CheckedOffsets(b) ==
    {OffLen, OffType, OffCols2(b), OffEnd(b)}
      \cup {OffColType(b, i) : i \in 1..Len(b.header)}

\* two integer fields of the frame hold other values
OpenPatchedTwice(seek, at1, v1, at2, v2) ==
    /\ wres = "ok" /\ scen.kind = "none" /\ Len(written) = 1
    /\ at1 \in CheckedOffsets(block) /\ at2 \in CheckedOffsets(block)
    /\ at1 < at2
    /\ Unpack(SubSeq(sink, at1 + 1, at1 + 4)) # v1
    /\ Unpack(SubSeq(sink, at2 + 1, at2 + 4)) # v2
    /\ src' = Patch(Patch(sink, at1, v1), at2, v2)
    /\ seekable' = seek
    /\ scen' = [NoScen EXCEPT !.kind = "patch2", !.at = at1, !.v = v1,
                              !.g = <<at2, v2>>]
    /\ UNCHANGED <<block, sink, wres, rd, written, calls, runner>>

NextTwo ==
    \/ \E b \in SeqBlocks : Serialise(b.name, b.header, b.matrix)
    \/ \E seek \in BOOLEAN, at1, at2 \in CheckedOffsets(block),
            v1, v2 \in PatchVals :
          OpenPatchedTwice(seek, at1, v1, at2, v2)
    \/ Deseralise

SpecTwo == Init /\ [][NextTwo]_vars

\* the integer the source holds in the field at offset at
Field(at) == Unpack(SubSeq(src, at + 1, at + 4))

\* the violations the source holds, by error kind
Violates(kind) ==
    CASE kind = "UnsupportedBlockType" -> Field(OffType) # 1
      [] kind = "UnknownColumnType" ->
            \E i \in 1..Len(block.header) :
                Field(OffColType(block, i)) \notin {0, 1}
      [] kind = "ColumnCountMismatch" ->
            Field(OffCols2(block)) # Len(block.header)
      [] kind = "FrameLengthMismatch" ->
            seekable /\ Field(OffLen) # FrameLen(block)
      [] kind = "FrameEndMarkerMismatch" ->
            SubSeq(src, OffEnd(block) + 1, OffEnd(block) + 4)
                # <<75, 99, 108, 66>>

\* the first kind of the order whose violation the source holds
FirstViolation(order) ==
    LET hit == {k \in 1..Len(order) : Violates(order[k])}
    IN  IF hit = {} THEN "none"
        ELSE order[CHOOSE k \in hit : \A j \in hit : k <= j]

\* the order of the steps of the format description
StepOrder ==
    <<"UnsupportedBlockType", "UnknownColumnType", "ColumnCountMismatch",
      "FrameLengthMismatch", "FrameEndMarkerMismatch">>

\* the order of the statements of deseralise
StatementOrder ==
    <<"UnsupportedBlockType", "ColumnCountMismatch", "UnknownColumnType",
      "FrameLengthMismatch", "FrameEndMarkerMismatch">>

\* C14: error precedence. A frame with several violations fails with the
\* error of the earliest step, in the order UnsupportedBlockType,
\* UnknownColumnType, ColumnCountMismatch, FrameLengthMismatch,
\* FrameEndMarkerMismatch; an unknown type tag together with a wrong
\* repeated column count fails with UnknownColumnType.  Stated for the
\* frames that decode when left untouched.
C14_StepOrder ==
    (scen.kind = "patch2" /\ Finished /\ RoundTrips
        /\ FirstViolation(StepOrder) # "none")
        => rd.err = FirstViolation(StepOrder)

\* what deseralise does on these frames: the column count is compared
\* before the type tags are looked up
StatementOrderOnDecodable ==
    (scen.kind = "patch2" /\ Finished /\ RoundTrips
        /\ FirstViolation(StatementOrder) # "none")
        => rd.err = FirstViolation(StatementOrder)

----------------------------------------------------------------------------
(* deseralise statement by statement, on frames and on arbitrary bytes *)

MaxScan == 5

\* the bytes of the start marker and a byte that is not part of it
ScanBytes == {66, 108, 99, 75, 0}

\* every source of at most MaxScan of these bytes, the empty one included
ScanSources == UNION {[1..n -> ScanBytes] : n \in 0..MaxScan}

\* the source holds bytes no serialise call wrote
OpenRaw(seek, s) ==
    /\ wres = "idle" /\ scen.kind = "none"
    /\ src' = s
    /\ seekable' = seek
    /\ scen' = [NoScen EXCEPT !.kind = "raw"]
    /\ UNCHANGED <<block, sink, wres, rd, written, calls, runner>>

\* the caller enters deseralise
Call ==
    /\ scen.kind # "none" /\ rd.pc = "idle"
    /\ rd' = RdStart(rd.pos)
    /\ UNCHANGED <<block, sink, wres, src, seekable, scen, written, calls,
                   runner>>

\* the next statement of the running call
StepCall ==
    /\ rd.pc \notin {"idle", "done", "failed"}
    /\ rd' = Step(src, seekable, rd)
    /\ calls' = IF rd'.pc \in {"done", "failed"}
                THEN Append(calls, [out |-> Outcome(rd'), from |-> 0,
                                    to |-> rd'.pos])
                ELSE calls
    /\ UNCHANGED <<block, sink, wres, src, seekable, scen, written, runner>>

NextSteps ==
    \/ /\ scen.kind = "none"
       /\ \E b \in SeqBlocks : Serialise(b.name, b.header, b.matrix)
    \/ /\ scen.kind = "none" /\ wres = "idle"
       /\ \E seek \in BOOLEAN, s \in ScanSources : OpenRaw(seek, s)
    \/ \E seek \in BOOLEAN : OpenPlain(seek)
    \/ \E seek \in BOOLEAN, k \in 0..Len(sink) : OpenTruncated(seek, k)
    \/ \E seek \in BOOLEAN, at \in PatchOffsets(block), v \in PatchVals :
          OpenPatched(seek, at, v)
    \/ \E seek \in BOOLEAN, at \in (Len(sink) - 3)..Len(sink), bit \in 0..7 :
          OpenFlipped(seek, at, bit)
    \/ Call
    \/ StepCall

SpecSteps == Init /\ [][NextSteps]_vars

\* the running call is scheduled until it returns or raises
SpecStepsFair == SpecSteps /\ WF_vars(StepCall)

\* the last four of the first n bytes of the source behind four zero bytes,
\* in the order they were read
Window(n) == SubSeq(<<0, 0, 0, 0>> \o SubSeq(src, 1, n), n + 1, n + 4)

\* C15: resync scan semantics. From an all-zero window _synchronise takes
\* one byte at a time into the window and returns at the first position
\* where the last four bytes consumed are 0x42 0x6C 0x63 0x4B; it reports
\* no match before 4 bytes are consumed, skips no occurrence of the marker
\* and has consumed exactly the bytes up to the marker's last byte.
C15_ScanSemantics ==
    /\ rd.pc = "sync" =>
          /\ rd.sync = Window(rd.pos)
          /\ ~ContainsMarker(SubSeq(src, 1, rd.pos))
    /\ rd.pc = "block_len" =>
          /\ rd.pos >= 4
          /\ SubSeq(src, rd.pos - 3, rd.pos) = <<66, 108, 99, 75>>
          /\ rd.sync = Digits(BLOCK_START_SEQUENCE)
          /\ ~ContainsMarker(SubSeq(src, 1, rd.pos - 1))

\* the scan has returned behind a marker that overlaps the start of a
\* marker it did not complete
C15_Witness ==
    /\ scen.kind = "raw" /\ rd.pc = "block_len"
    /\ src = <<66, 66, 108, 99, 75>> /\ rd.pos = 5


\* the source of the call holds no occurrence of the start marker
NoMarkerSource == scen.kind # "none" /\ ~ContainsMarker(src)

\* the call has raised the end-of-file error with every byte consumed
EndedAtEof ==
    /\ rd.pc = "failed" /\ rd.err = "UnexpectedEndOfStream"
    /\ rd.at = "sync" /\ rd.pos = Len(src)

\* C16: resync terminates on exhausted input. On a source without an
\* occurrence of the start marker (the empty source and a source that ends
\* with a part of the marker included) deseralise never leaves the scan
\* other than by UnexpectedEndOfStream, and a call that has started
\* reaches that error, with every byte of the source consumed.
C16_ScanTerminates ==
    /\ [](NoMarkerSource => (rd.pc \in {"idle", "sync"} \/ EndedAtEof))
    /\ (NoMarkerSource /\ rd.pc = "sync") ~> EndedAtEof

\* the call has ended on a source that stops after the first three bytes
\* of the marker
C16_Witness ==
    /\ scen.kind = "raw" /\ EndedAtEof
    /\ Len(src) = MaxScan
    /\ SubSeq(src, Len(src) - 2, Len(src)) = <<66, 108, 99>>


\* the phase of the parse a statement belongs to
Phase(pc) ==
    CASE pc = "idle" -> 0
      [] pc = "sync" -> 1
      [] pc \in {"block_len", "block_type", "name"} -> 2
      [] pc \in {"header_len", "column"} -> 3
      [] pc \in {"rows_cols", "matrix"} -> 4
      [] pc \in {"check_len", "block_end"} -> 5
      [] pc \in {"done", "failed"} -> 6

\* every check of deseralise has passed on what the call has decoded
AllChecksPassed ==
    /\ rd.cols = Len(rd.header)
    /\ \A i \in 1..Len(rd.header) : rd.header[i].type \in TYPE_MAP
    /\ Len(rd.matrix) = rd.rows
    /\ seekable => (rd.pos - 4) - rd.pos0 = rd.block_len
    /\ rd.pos >= 4
    /\ SubSeq(src, rd.pos - 3, rd.pos) = Pack(BLOCK_END_SEQUENCE)

\* C17: linear all-or-nothing parse. A call passes through scan, header
\* read, columns read, payload read and verification in that order, never
\* back to an earlier phase and never moving the source backwards, and it
\* ends either with a Block after every check has passed or with exactly
\* one error and no Block.
C17_LinearParse ==
    /\ [][/\ rd'.pos >= rd.pos
          /\ Phase(rd'.pc) >= Phase(rd.pc)
          /\ rd.pc \in {"done", "failed"} => rd' = rd]_vars
    /\ [](rd.pc \notin {"done", "failed"} => rd.err = "none")
    /\ [](rd.pc = "done" =>
            /\ rd.err = "none" /\ AllChecksPassed
            /\ calls = <<[out |-> [kind |-> "ok", name |-> rd.name,
                                   header |-> rd.header, matrix |-> rd.matrix],
                          from |-> 0, to |-> rd.pos]>>)
    /\ [](rd.pc = "failed" =>
            /\ rd.err # "none"
            /\ calls = <<[out |-> [kind |-> rd.err, name |-> <<>>,
                                   header |-> <<>>, matrix |-> <<>>],
                          from |-> 0, to |-> rd.pos]>>)
    /\ [](rd.pc \notin {"done", "failed"} => calls = <<>>)

\* the call has decoded the whole payload of a frame whose end marker is
\* cut off, and has raised
C17_Witness ==
    /\ scen.kind = "cut" /\ rd.pc = "failed" /\ rd.at = "block_end"
    /\ Len(rd.matrix) = 1 /\ rd.err = "UnexpectedEndOfStream"
    /\ calls[1].out.matrix = <<>>

----------------------------------------------------------------------------
(* Frames of another writer *)

\* blocks of one column and at most one row whose names are at, or one
\* byte over, the size limit
ForgedBlocks ==
    {[name |-> n, header |-> h, rows |-> rows, ncols |-> 1,
      cells |-> Matrix(TRUE, rows, 1).cells] :
        n \in LimitNames, h \in LimitHeaders, rows \in 0..1}

\* the source holds the frame a writer without a size limit lays out for b
OpenForged(seek, b) ==
    /\ wres = "idle" /\ scen.kind = "none"
    /\ src' = FrameLayout(b)
    /\ seekable' = seek
    /\ block' = b
    /\ scen' = [NoScen EXCEPT !.kind = "forged"]
    /\ UNCHANGED <<sink, wres, rd, written, calls, runner>>

\* the length field of the block name or of the column name holds -1
OpenNegativeLength(seek, at) ==
    /\ wres = "ok" /\ scen.kind = "none"
    /\ at \in {OffName, OffCol(block, 1)}
    /\ src' = Patch(sink, at, -1)
    /\ seekable' = seek
    /\ scen' = [NoScen EXCEPT !.kind = "neglen", !.at = at, !.v = -1]
    /\ UNCHANGED <<block, sink, wres, rd, written, calls, runner>>

NextForged ==
    \/ /\ scen.kind = "none"
       /\ \E name \in LimitNames, header \in LimitHeaders, matrix \in Matrices :
             Serialise(name, header, matrix)
    \/ \E seek \in BOOLEAN : OpenPlain(seek)
    \/ /\ scen.kind = "none"
       /\ \E seek \in BOOLEAN, b \in ForgedBlocks : OpenForged(seek, b)
    \/ \E seek \in BOOLEAN, at \in 0..Len(sink) : OpenNegativeLength(seek, at)
    \/ Deseralise

SpecForged == Init /\ [][NextForged]_vars

\* the returned triple has one type per column, as many columns as the
\* frame declares, and rows times cols cells of 4 bytes
DecodedShape ==
    rd.pc = "done" =>
        /\ rd.cols = Len(rd.header)
        /\ Len(rd.matrix) = rd.rows
        /\ \A r \in 1..Len(rd.matrix) :
              /\ Len(rd.matrix[r]) = rd.cols
              /\ \A c \in 1..rd.cols : Len(rd.matrix[r][c]) = NUMBER_LEN

\* C18: decoded Blocks satisfy the data-model invariants. Whatever wrote
\* the stream, a returned Block has a name and column names of at most
\* 1024 bytes, as many columns as column specs and rows*cols cells of 4
\* bytes; a frame with a name-length field that is negative or above 1024
\* is never decoded.
C18_DecodedInvariants ==
    /\ DecodedShape
    /\ rd.pc = "done" =>
          /\ Len(rd.name) <= MAX_STR_SIZE
          /\ \A i \in 1..Len(rd.header) :
                Len(rd.header[i].name) <= MAX_STR_SIZE
    /\ (scen.kind = "neglen" /\ Finished) => rd.pc = "failed"
    /\ (scen.kind = "forged" /\ TooLong(block) /\ Finished)
          => rd.pc = "failed"

\* what holds of the claim: the shape of every returned Block, and the
\* rejection of negative name lengths
ShapeAndNegativeLength ==
    /\ DecodedShape
    /\ (scen.kind = "neglen" /\ Finished) => rd.pc = "failed"

\* deseralise returns names of more than 1024 bytes as they are framed
LongNameDecoded ==
    /\ scen.kind = "forged" /\ rd.pc = "done"
    /\ Len(rd.name) = MAX_STR_SIZE + 1
    /\ Outcome(rd) = BlockOf(block)

----------------------------------------------------------------------------
(* Frames back to back *)

\* a call that returned a Block stopped right behind the end marker of a
\* frame that begins at or after the position the call started from
ExactConsumption ==
    \A k \in 1..Len(calls) :
        calls[k].out.kind = "ok" =>
            \E j \in 1..Len(written) :
                /\ calls[k].from <= written[j].from
                /\ calls[k].to = written[j].to
                /\ SubSeq(src, calls[k].to - 3, calls[k].to)
                     = Pack(BLOCK_END_SEQUENCE)

\* C19: exact consumption and frame sequencing. A call that succeeds
\* leaves the source right behind the end marker of the frame it decoded;
\* on the frames of n serialise calls of valid Blocks b1..bn, written back
\* to back, n successive calls return b1..bn in that order and the call
\* after them fails with UnexpectedEndOfStream.
C19_Sequencing ==
    (scen.kind = "plain" /\ \A j \in 1..Len(written) : written[j].res = "ok")
        => /\ ExactConsumption
           /\ \A k \in 1..Len(calls) :
                 IF k <= Len(written)
                 THEN /\ calls[k].out = BlockOf(written[k].block)
                      /\ calls[k].to = written[k].to
                 ELSE calls[k].out.kind = "UnexpectedEndOfStream"

\* the same on streams whose frames all decode on their own
SequencingOnDecodable ==
    (scen.kind = "plain" /\ \A j \in 1..Len(written) : DecodesAlone(j))
        => /\ ExactConsumption
           /\ \A k \in 1..Len(calls) :
                 IF k <= Len(written)
                 THEN /\ calls[k].out = BlockOf(written[k].block)
                      /\ calls[k].to = written[k].to
                 ELSE /\ calls[k].out.kind = "UnexpectedEndOfStream"
                      /\ calls[k].to = Len(src)

\* MaxFrames frames, each returned by its call, and the call after them
\* ended by the end of the source
SequenceRead ==
    /\ scen.kind = "plain" /\ Len(written) = MaxFrames
    /\ Len(calls) = MaxFrames + 1
    /\ \A k \in 1..MaxFrames : calls[k].out.kind = "ok"
    /\ written[1].block # written[2].block

----------------------------------------------------------------------------
(* The sink after a serialise call that failed *)

\* the serialise call has raised
WriteFailed == wres \notin {"idle", "ok"}

\* the number of bytes serialise writes before the field it fails at: the
\* block name, the first column name over the limit, or the row count
FailOffset(b) ==
    IF Len(b.name) > MAX_STR_SIZE THEN OffName
    ELSE IF \E i \in 1..Len(b.header) : Len(b.header[i].name) > MAX_STR_SIZE
    THEN OffCol(b, CHOOSE i \in 1..Len(b.header) :
                      /\ Len(b.header[i].name) > MAX_STR_SIZE
                      /\ \A j \in 1..(i - 1) :
                            Len(b.header[j].name) <= MAX_STR_SIZE)
    ELSE OffRows(b)

\* C20 as stated: a serialise call that fails on a name over the limit or
\* on the column count has written no byte to the sink.
C20_SinkUnchanged == WriteFailed => sink = <<>>

\* C20 amended: a serialise call that fails on a name over the limit or on
\* the column count has written the start marker, the frame length, the
\* block type and every field before the one it failed at, and nothing
\* after: the sink ends with a partial frame without payload and end marker.
C20_PartialFrame ==
    WriteFailed =>
        /\ TooLong(block) \/ block.ncols # Len(block.header)
        /\ FailOffset(block) >= OffName
        /\ sink = SubSeq(FrameLayout(block), 1, FailOffset(block))
        /\ SubSeq(sink, 1, 4) = Pack(BLOCK_START_SEQUENCE)
        /\ SubSeq(sink, Len(sink) - 3, Len(sink)) # Pack(BLOCK_END_SEQUENCE)

\* the call failed at the column name after it had written a block name
\* of 1024 bytes and the column count
C20_Witness ==
    /\ WriteFailed /\ Len(block.name) = MAX_STR_SIZE
    /\ Len(block.header[1].name) > MAX_STR_SIZE
    /\ Len(sink) = OffName + SIZE_LEN + MAX_STR_SIZE + SIZE_LEN

====
